---- MODULE Spec2Model ----
(***************************************************************************)
(* btcdice.py: a reproducible coin throw derived from two bitcoin block    *)
(* hashes.  The module models the script as a sequential state machine     *)
(* (Spec) and its two hash functions as functions applied to drawn inputs  *)
(* (SpecHash).                                                             *)
(*                                                                         *)
(* Numbers.  The script works on 256- and 512-bit integers; TLC's integers *)
(* are 32 bits wide.  The value width is therefore scaled: a block hash is *)
(* four hex digits,      int(sha512(s).hexdigest(), 16) is one of the      *)
(* representatives HashVals, Python's sys.maxint is SysMaxInt and the      *)
(* prime 2^255 - 19 is 2^25 - 39.  The constants the claims are about      *)
(* (finalMod, maxNbLoops, bitChopper, maxBackBlock, toBlock) keep their    *)
(* values.                                                                 *)
(*                                                                         *)
(* SHA-512 is an oracle: every evaluation may yield any value of HashVals, *)
(* whatever its input, which covers every hash function into that set.     *)
(***************************************************************************)
EXTENDS Integers, Sequences, FiniteSets, TLC

VARIABLES
    mode,          \* "program": the script; else the function applied alone
    pc,            \* position of the (single) thread of control
    error,         \* the exception that ended the run, None if none
    sys_argv,      \* sys.argv: <<script>> or <<script, argument>>
    fromBlock, toBlock, blockId, count, histo,   \* the driver's globals
    printed,       \* stdout, one entry per "block = ..." line
    outstanding,   \* bitcoin-cli subprocesses started and not yet returned
    calls,         \* block arguments of the getBlockHash calls of the
                   \* current derivation (before the loop: of the check)
    nbCalls,       \* getBlockHash calls of the whole run
    livenessReply, \* what getBlockHash('1') returned to the check
    failed,        \* some bitcoin-cli call of the run has exited non-zero
    hash1Num, block2,                            \* lottery's locals
    ret,           \* what lottery() returned: <<>> or <<final, block2, nbLoops>>
    data, nbLoops, x,                            \* slowDataDependentHash's
    nbBase,        \* slowBaseHash applications completed in the current
                   \* slowDataDependentHash call
    arg,           \* SpecHash: the input the function is applied to
    baseResult     \* SpecHash: what slowBaseHash(arg) did

vars == <<mode, pc, error, sys_argv, fromBlock, toBlock, blockId, count,
          histo, printed, outstanding, calls, nbCalls, livenessReply,
          failed, hash1Num, block2, ret, data, nbLoops, x, nbBase, arg,
          baseResult>>

driverVars == <<fromBlock, toBlock, blockId, count, histo, printed>>
rpcVars    == <<outstanding, calls, nbCalls, failed>>
lotVars    == <<hash1Num, block2, ret>>
chainVars  == <<data, nbLoops, x, nbBase>>
fnVars     == <<arg, baseResult>>
fixedVars  == <<mode, sys_argv>>

None == "None"

-----------------------------------------------------------------------------
(* Constants of the script *)

finalMod == 2
maxNbLoops == 257
bitChopper == 310889
maxBackBlock == 400000
twoToThe255Minus19 == 2^25 - 39
defaultFromBlock == 1
defaultToBlock == 411157

\* A string is a sequence of one-character strings.
blockOneHash == <<"0", "0", "8", "3">>

-----------------------------------------------------------------------------
(* Bounds of the model *)

\* driver-loop iterations explored
MaxRuns == 2
\* sys.maxint at the model's value width: int() yields a long beyond it
SysMaxInt == 127

\* the values int(sha512(s).hexdigest(), 16) is drawn from
HashVals == { 5,                        \* below sys.maxint: a Python int
              1000,                     \* 0 loops
              bitChopper,               \* 1 loop
              maxBackBlock,             \* 1 loop, a multiple of maxBackBlock
              2 * maxBackBlock - 1,     \* 2 loops, maxBackBlock - 1 mod maxBackBlock
              (maxNbLoops - 1) * bitChopper + 2,   \* maxNbLoops - 1 loops
              maxNbLoops * bitChopper } \* quotient maxNbLoops: 0 loops

\* what bitcoin-cli getblockhash may write to stdout
Stdouts == { blockOneHash \o <<"\n">>,
             <<"0", "0", "0", "5", "\n">>,      \* a hash below sys.maxint
             <<"a", "b", "c", "d", "\n">>,
             <<"e", "r", "r", "\n">> }          \* not a hash

\* sys.argv
Script == <<"b", "t", "c", "d", "i", "c", "e", ".", "p", "y">>
ArgVs == { <<Script>>,
           <<Script, <<"3", "9", "5", "4", "3", "2">> >>,
           <<Script, <<"x">> >> }

\* the Python integers the functions are applied to in SpecHash
PyInputs == { [type |-> "int",  val |-> 5],
              [type |-> "int",  val |-> 0],
              [type |-> "int",  val |-> 0 - 5],
              [type |-> "long", val |-> 5],
              [type |-> "long", val |-> 0 - 5],
              [type |-> "long", val |-> 43981],
              [type |-> "long", val |-> 0 - 43981],
              [type |-> "long", val |-> maxNbLoops * bitChopper] }

-----------------------------------------------------------------------------
(* Python's conversions *)

HexChars == <<"0", "1", "2", "3", "4", "5", "6", "7", "8", "9",
              "a", "b", "c", "d", "e", "f">>

IsDigit(c, base) == \E i \in 1..base : HexChars[i] = c

DigitVal(c) == (CHOOSE i \in 1..16 : HexChars[i] = c) - 1

RECURSIVE DigitsValue(_, _)
DigitsValue(s, base) ==
    IF s = <<>> THEN 0
    ELSE (DigitsValue(SubSeq(s, 1, Len(s) - 1), base) * base) + DigitVal(s[Len(s)])

\* int(s, base) accepts an optional sign and at least one digit of the base
IsIntLiteral(s, base) ==
    LET body == IF s # <<>> /\ s[1] = "-" THEN Tail(s) ELSE s
    IN  /\ body # <<>>
        /\ \A i \in 1..Len(body) : IsDigit(body[i], base)

IntValue(s, base) ==
    IF s[1] = "-" THEN 0 - DigitsValue(Tail(s), base) ELSE DigitsValue(s, base)

\* int(s, base) is an int when the value fits a machine word, else a long
PyInt(v) ==
    [type |-> IF v > SysMaxInt \/ v < 0 - SysMaxInt - 1 THEN "long" ELSE "int",
     val  |-> v]

RECURSIVE NatStr(_)
NatStr(n) ==
    IF n < 10 THEN <<HexChars[n + 1]>>
    ELSE NatStr(n \div 10) \o <<HexChars[(n % 10) + 1]>>

\* str(n) of an int or a long: base 10, a minus sign when negative
str(n) == IF n < 0 THEN <<"-">> \o NatStr(0 - n) ELSE NatStr(n)

RECURSIVE rstripNl(_)
rstripNl(s) ==
    IF s # <<>> /\ s[Len(s)] = "\n" THEN rstripNl(SubSeq(s, 1, Len(s) - 1)) ELSE s

\* a ^ b on non-negative integers
RECURSIVE Xor(_, _)
Xor(a, b) ==
    IF a = 0 THEN b
    ELSE IF b = 0 THEN a
    ELSE (2 * Xor(a \div 2, b \div 2)) + ((a + b) % 2)

-----------------------------------------------------------------------------
(* The hash functions *)

\* int(hashlib.sha512(s).hexdigest(), 16): the oracle
sha512Int(s) == HashVals

\* (a * b) % m for a, b < m < 2^25, no intermediate value beyond 32 bits
RECURSIVE MulMod(_, _, _)
MulMod(a, b, m) ==
    IF b = 0 THEN 0
    ELSE (((MulMod(a, b \div 32, m) * 32) % m) + ((a * (b % 32)) % m)) % m

\* (x*x*x + 486662*x*x + x) % twoToThe255Minus19
Polynomial(h) ==
    LET p  == twoToThe255Minus19
        hm == h % p
        h2 == MulMod(hm, hm, p)
        h3 == MulMod(h2, hm, p)
    IN  (h3 + MulMod(486662 % p, h2, p) + hm) % p

\* IsLong testing the sign instead of the type
IsLong_SignCheck(d) == d.val >= 0

\* type(data) is long
IsLong(d) == d.type = "long"

\* slowBaseHash(data): the set of things one call may do.  hashed lists the
\* strings given to sha512, in order.
slowBaseHash(d) ==
    IF ~IsLong(d)
    THEN { [raised |-> TRUE, hashed |-> <<>>] }
    ELSE { [raised |-> FALSE,
            ret    |-> PyInt(r),
            hashed |-> <<str(d.val), str(Polynomial(h) \div bitChopper)>>] :
           h \in sha512Int(str(d.val)), r \in HashVals }

\* NbLoopsOf reducing by one more than maxNbLoops
NbLoopsOf_OffByOne(d) == (d.val \div bitChopper) % (maxNbLoops + 1)

\* nbLoops = (data // bitChopper) % maxNbLoops
NbLoopsOf(d) == (d.val \div bitChopper) % maxNbLoops

\* SiblingHeight reducing by one more than maxBackBlock
SiblingHeight_OffByOne(d) == d.val % (maxBackBlock + 1)

\* block2 = block2 % maxBackBlock
SiblingHeight(d) == d.val % maxBackBlock

\* FinalOutcomes reducing by one more than nbOutcomes
FinalOutcomes_OffByOne(h1, h2, nbOutcomes) ==
    { final % (nbOutcomes + 1) : final \in sha512Int(str(Xor(h1.val, h2.val))) }

\* final = int(sha512(str(hash1Num ^ hash2Num)).hexdigest(), 16) % nbOutcomes
FinalOutcomes(h1, h2, nbOutcomes) ==
    { final % nbOutcomes : final \in sha512Int(str(Xor(h1.val, h2.val))) }

-----------------------------------------------------------------------------
(* The script *)

Init ==
    /\ mode = "program"
    /\ pc = "parse"
    /\ error = None
    /\ sys_argv \in ArgVs
    /\ fromBlock = defaultFromBlock
    /\ toBlock = defaultToBlock
    /\ blockId = None
    /\ count = None
    /\ histo = None
    /\ printed = <<>>
    /\ outstanding = 0
    /\ calls = <<>>
    /\ nbCalls = 0
    /\ failed = FALSE
    /\ livenessReply = <<>>
    /\ hash1Num = None
    /\ block2 = <<>>
    /\ ret = <<>>
    /\ data = None
    /\ nbLoops = None
    /\ x = None
    /\ nbBase = 0
    /\ arg = None
    /\ baseResult = None

\* an uncaught exception ends the run
Raise(e) == pc' = "fatal" /\ error' = e

\* lines 161-163
ParseCommandLine ==
    /\ mode = "program" /\ pc = "parse"
    /\ IF 1 < Len(sys_argv)
       THEN IF IsIntLiteral(sys_argv[2], 10)
            THEN /\ fromBlock' = IntValue(sys_argv[2], 10)
                 /\ toBlock' = IntValue(sys_argv[2], 10)
                 /\ pc' = "check"
                 /\ error' = error
            ELSE /\ Raise("ValueError: invalid literal for int()")
                 /\ UNCHANGED <<fromBlock, toBlock>>
       ELSE /\ pc' = "check"
            /\ UNCHANGED <<fromBlock, toBlock, error>>
    /\ UNCHANGED <<blockId, count, histo, printed>>
    /\ UNCHANGED <<rpcVars, livenessReply, lotVars, chainVars, fnVars, fixedVars>>

\* line 166, the call: getBlockHash('1') starts bitcoin-cli
CheckCall ==
    /\ mode = "program" /\ pc = "check"
    /\ outstanding' = outstanding + 1
    /\ calls' = Append(calls, str(1))
    /\ nbCalls' = nbCalls + 1
    /\ pc' = "check_wait"
    /\ UNCHANGED <<error, driverVars, failed, livenessReply, lotVars,
                   chainVars, fnVars, fixedVars>>

\* CheckReturn without the comparison of line 166
CheckReturn_NoCompare ==
    /\ mode = "program" /\ pc = "check_wait"
    /\ \E raw \in Stdouts :
         /\ outstanding' = outstanding - 1
         /\ livenessReply' = rstripNl(raw)
         /\ count' = 0
         /\ histo' = [i \in 0..(finalMod - 1) |-> 0]
         /\ blockId' = fromBlock
         /\ pc' = "loop"
         /\ error' = error
    /\ UNCHANGED <<fromBlock, toBlock, printed, calls, nbCalls, failed,
                   lotVars, chainVars, fnVars, fixedVars>>

\* lines 166-171: bitcoin-cli exits 0; the reply is compared, the statistics
\* are set up
CheckReturn ==
    /\ mode = "program" /\ pc = "check_wait"
    /\ \E raw \in Stdouts :
         /\ outstanding' = outstanding - 1
         /\ livenessReply' = rstripNl(raw)
         /\ IF blockOneHash = rstripNl(raw)
            THEN /\ count' = 0
                 /\ histo' = [i \in 0..(finalMod - 1) |-> 0]
                 /\ blockId' = fromBlock
                 /\ pc' = "loop"
                 /\ error' = error
            ELSE /\ Raise("ValueError: could not verify hash of bitcoin block #1")
                 /\ UNCHANGED <<count, histo, blockId>>
    /\ UNCHANGED <<fromBlock, toBlock, printed, calls, nbCalls, failed,
                   lotVars, chainVars, fnVars, fixedVars>>

\* line 166: bitcoin-cli exits non-zero, check_output raises
CheckFail ==
    /\ mode = "program" /\ pc = "check_wait"
    /\ outstanding' = outstanding - 1
    /\ failed' = TRUE
    /\ Raise("CalledProcessError")
    /\ UNCHANGED <<driverVars, calls, nbCalls, livenessReply, lotVars,
                   chainVars, fnVars, fixedVars>>

\* lines 172, 175, 134: the loop takes the next height and lottery() asks
\* for its hash
LotteryCall ==
    /\ mode = "program" /\ pc = "loop"
    /\ blockId <= toBlock
    /\ Len(printed) < MaxRuns
    /\ outstanding' = outstanding + 1
    /\ calls' = <<str(blockId)>>
    /\ nbCalls' = nbCalls + 1
    /\ pc' = "rpc1"
    /\ UNCHANGED <<error, driverVars, failed, livenessReply, lotVars,
                   chainVars, fnVars, fixedVars>>

\* line 172: the range is exhausted
LoopExit ==
    /\ mode = "program" /\ pc = "loop"
    /\ blockId > toBlock
    /\ pc' = "done"
    /\ UNCHANGED <<error, driverVars, rpcVars, livenessReply, lotVars,
                   chainVars, fnVars, fixedVars>>

\* lines 134-138: the primary hash arrives and is parsed
Rpc1Return ==
    /\ mode = "program" /\ pc = "rpc1"
    /\ \E raw \in Stdouts :
         LET hash1 == rstripNl(raw) IN
         /\ outstanding' = outstanding - 1
         /\ IF IsIntLiteral(hash1, 16)
            THEN /\ hash1Num' = PyInt(IntValue(hash1, 16))
                 /\ data' = PyInt(IntValue(hash1, 16))
                 /\ pc' = "sddh"
                 /\ error' = error
            ELSE /\ Raise("ValueError: invalid literal for int()")
                 /\ UNCHANGED <<hash1Num, data>>
    /\ UNCHANGED <<driverVars, calls, nbCalls, failed, livenessReply, block2,
                   ret, nbLoops, x, nbBase, fnVars, fixedVars>>

\* line 134: bitcoin-cli fails for the primary block
Rpc1Fail ==
    /\ mode = "program" /\ pc = "rpc1"
    /\ outstanding' = outstanding - 1
    /\ failed' = TRUE
    /\ Raise("CalledProcessError")
    /\ UNCHANGED <<driverVars, calls, nbCalls, livenessReply, lotVars,
                   chainVars, fnVars, fixedVars>>

\* lines 123-125: the first slowBaseHash and the number of loops
ChainFirst ==
    /\ pc = "sddh"
    /\ \E r \in slowBaseHash(data) :
         IF r.raised
         THEN /\ Raise("ValueError: data should be a (big) int")
              /\ nbBase' = 0
              /\ UNCHANGED <<data, nbLoops, x>>
         ELSE /\ data' = r.ret
              /\ nbLoops' = NbLoopsOf(r.ret)
              /\ x' = 0
              /\ nbBase' = 1
              /\ pc' = "chain"
              /\ error' = error
    /\ UNCHANGED <<driverVars, rpcVars, livenessReply, lotVars, fnVars, fixedVars>>

\* lines 126-127: one iteration of the loop; x counts the iterations done
ChainStep ==
    /\ pc = "chain"
    /\ x < nbLoops
    /\ \E r \in slowBaseHash(data) :
         IF r.raised
         THEN /\ Raise("ValueError: data should be a (big) int")
              /\ UNCHANGED <<data, x, nbBase>>
         ELSE /\ data' = r.ret
              /\ x' = x + 1
              /\ nbBase' = nbBase + 1
              /\ pc' = "chain"
              /\ error' = error
    /\ UNCHANGED <<nbLoops, driverVars, rpcVars, livenessReply, lotVars,
                   fnVars, fixedVars>>

\* SiblingCall not waiting for the loop to end
SiblingCall_Early ==
    /\ mode = "program" /\ pc = "chain"
    /\ x <= nbLoops
    /\ block2' = str(SiblingHeight(data))
    /\ outstanding' = outstanding + 1
    /\ calls' = Append(calls, str(SiblingHeight(data)))
    /\ nbCalls' = nbCalls + 1
    /\ pc' = "rpc2"
    /\ UNCHANGED <<error, driverVars, failed, livenessReply, hash1Num, ret,
                   chainVars, fnVars, fixedVars>>

\* lines 128, 138-143: the chain returns, the sibling height is reduced and
\* rendered, lottery() asks for the sibling's hash
SiblingCall ==
    /\ mode = "program" /\ pc = "chain"
    /\ x = nbLoops
    /\ block2' = str(SiblingHeight(data))
    /\ outstanding' = outstanding + 1
    /\ calls' = Append(calls, str(SiblingHeight(data)))
    /\ nbCalls' = nbCalls + 1
    /\ pc' = "rpc2"
    /\ UNCHANGED <<error, driverVars, failed, livenessReply, hash1Num, ret,
                   chainVars, fnVars, fixedVars>>

\* lines 143-156, 175: the sibling hash arrives; XOR, final hash, reduction;
\* lottery() returns (final, block2, nbLoops)
Rpc2Return ==
    /\ mode = "program" /\ pc = "rpc2"
    /\ \E raw \in Stdouts :
         LET hash2 == rstripNl(raw) IN
         /\ outstanding' = outstanding - 1
         /\ IF IsIntLiteral(hash2, 16)
            THEN /\ \E final \in FinalOutcomes(hash1Num,
                                               PyInt(IntValue(hash2, 16)),
                                               finalMod) :
                      ret' = <<final, block2, nbLoops>>
                 /\ pc' = "show"
                 /\ error' = error
            ELSE /\ Raise("ValueError: invalid literal for int()")
                 /\ UNCHANGED ret
    /\ UNCHANGED <<driverVars, calls, nbCalls, failed, livenessReply,
                   hash1Num, block2, chainVars, fnVars, fixedVars>>

\* Rpc2Fail catching the failure and going on with an outcome of 0
Rpc2Fail_Swallowed ==
    /\ mode = "program" /\ pc = "rpc2"
    /\ outstanding' = outstanding - 1
    /\ failed' = TRUE
    /\ ret' = <<0, block2, nbLoops>>
    /\ pc' = "show"
    /\ UNCHANGED <<error, driverVars, calls, nbCalls, livenessReply,
                   hash1Num, block2, chainVars, fnVars, fixedVars>>

\* line 143: bitcoin-cli fails for the sibling block
Rpc2Fail ==
    /\ mode = "program" /\ pc = "rpc2"
    /\ outstanding' = outstanding - 1
    /\ failed' = TRUE
    /\ Raise("CalledProcessError")
    /\ UNCHANGED <<driverVars, calls, nbCalls, livenessReply, lotVars,
                   chainVars, fnVars, fixedVars>>

\* lines 175-185 and the loop's increment: the tuple is unpacked, the line
\* printed, the statistics updated.  The values of the finished derivation
\* are not read again before they are reassigned; they are cleared.
PrintAndCount ==
    /\ mode = "program" /\ pc = "show"
    /\ LET outcome == ret[1] IN
       IF outcome \in DOMAIN histo
       THEN /\ histo' = [histo EXCEPT ![outcome] = @ + 1]
            /\ count' = count + 1
            /\ printed' = Append(printed,
                   [block |-> blockId,
                    p0 |-> IF fromBlock < toBlock
                           THEN <<histo'[0], count'>> ELSE <<>>])
            /\ blockId' = blockId + 1
            /\ pc' = "loop"
            /\ error' = error
       ELSE /\ printed' = Append(printed, [block |-> blockId, p0 |-> <<>>])
            /\ Raise("IndexError: list index out of range")
            /\ UNCHANGED <<histo, count, blockId>>
    /\ hash1Num' = None /\ block2' = <<>> /\ ret' = <<>>
    /\ data' = None /\ nbLoops' = None /\ x' = None /\ nbBase' = 0
    /\ UNCHANGED <<fromBlock, toBlock, rpcVars, livenessReply, fnVars, fixedVars>>

Next ==
    \/ ParseCommandLine
    \/ CheckCall
    \/ CheckReturn
    \/ CheckFail
    \/ LotteryCall
    \/ LoopExit
    \/ Rpc1Return
    \/ Rpc1Fail
    \/ ChainFirst
    \/ ChainStep
    \/ SiblingCall
    \/ Rpc2Return
    \/ Rpc2Fail
    \/ PrintAndCount

Spec == Init /\ [][Next]_vars

-----------------------------------------------------------------------------
(* The hash functions applied alone, to every input of PyInputs *)

InitHash ==
    /\ mode \in {"slowBaseHash", "slowDataDependentHash"}
    /\ arg \in PyInputs
    /\ pc = (IF mode = "slowBaseHash" THEN "base" ELSE "sddh")
    /\ data = arg
    /\ error = None
    /\ sys_argv = <<Script>>
    /\ fromBlock = defaultFromBlock
    /\ toBlock = defaultToBlock
    /\ blockId = None
    /\ count = None
    /\ histo = None
    /\ printed = <<>>
    /\ outstanding = 0
    /\ calls = <<>>
    /\ nbCalls = 0
    /\ failed = FALSE
    /\ livenessReply = <<>>
    /\ hash1Num = None
    /\ block2 = <<>>
    /\ ret = <<>>
    /\ nbLoops = None
    /\ x = None
    /\ nbBase = 0
    /\ baseResult = None

\* lines 106-119: one call of slowBaseHash(arg)
BaseCall ==
    /\ mode = "slowBaseHash" /\ pc = "base"
    /\ \E r \in slowBaseHash(arg) :
         /\ baseResult' = r
         /\ IF r.raised
            THEN Raise("ValueError: data should be a (big) int")
            ELSE pc' = "returned" /\ error' = error
    /\ UNCHANGED <<arg, driverVars, rpcVars, livenessReply, lotVars,
                   chainVars, fixedVars>>

\* line 128: slowDataDependentHash returns (data, nbLoops)
ChainReturn ==
    /\ mode = "slowDataDependentHash" /\ pc = "chain"
    /\ x = nbLoops
    /\ pc' = "returned"
    /\ UNCHANGED <<error, driverVars, rpcVars, livenessReply, lotVars,
                   chainVars, fnVars, fixedVars>>

NextHash ==
    \/ BaseCall
    \/ ChainFirst
    \/ ChainStep
    \/ ChainReturn

SpecHash == InitHash /\ [][NextHash]_vars

-----------------------------------------------------------------------------
(* Properties *)

\* a derivation has started: lottery() is running or has run
DerivationActivity ==
    \/ pc \in {"rpc1", "sddh", "chain", "rpc2", "show"}
    \/ nbCalls > 1
    \/ printed # <<>>

RECURSIVE SumTo(_, _)
SumTo(f, n) == IF n < 0 THEN 0 ELSE f[n] + SumTo(f, n - 1)

\* C1: the check getBlockHash('1') == blockOneHash comes before any
\* derivation; when the reply differs from the constant the run ends in the
\* fatal error and no derivation call, output line or statistics update
\* ever happens.
C1_LivenessGuardsDerivation ==
    /\ pc = "check_wait" => calls = <<str(1)>> /\ ~DerivationActivity
    /\ DerivationActivity => livenessReply = blockOneHash
    /\ (livenessReply # <<>> /\ livenessReply # blockOneHash) =>
          /\ pc = "fatal"
          /\ error = "ValueError: could not verify hash of bitcoin block #1"
          /\ nbCalls = 1
          /\ ~DerivationActivity

C1_Witness ==
    /\ pc = "fatal"
    /\ livenessReply = <<"a", "b", "c", "d">>
    /\ nbCalls = 1

\* C2: the sibling height given to the second getBlockHash call lies in
\* 0 .. maxBackBlock - 1.
C2_SiblingInRange ==
    pc = "rpc2" =>
        /\ block2 = calls[2]
        /\ IsIntLiteral(calls[2], 10)
        /\ IntValue(calls[2], 10) \in 0..(maxBackBlock - 1)

C2_Witness ==
    /\ pc = "rpc2"
    /\ IntValue(calls[2], 10) = maxBackBlock - 1

\* C3: the loop count of slowDataDependentHash lies in 0 .. maxNbLoops - 1
\* and the loop ends after at most maxNbLoops - 1 further applications of
\* slowBaseHash.
C3_LoopCountBounded ==
    (mode = "slowDataDependentHash" /\ pc \in {"chain", "returned"}) =>
        /\ nbLoops \in 0..(maxNbLoops - 1)
        /\ x \in 0..nbLoops
        /\ nbBase - 1 <= maxNbLoops - 1

C3_Witness ==
    /\ mode = "slowDataDependentHash"
    /\ pc = "returned"
    /\ nbLoops = maxNbLoops - 1
    /\ nbBase = maxNbLoops

\* C4: the outcome lottery() returns lies in 0 .. nbOutcomes - 1 and is an
\* index of histo.
C4_OutcomeInRange ==
    /\ pc = "show" => ret[1] \in 0..(finalMod - 1) /\ ret[1] \in DOMAIN histo
    /\ error # "IndexError: list index out of range"

C4_Witness ==
    /\ pc = "show"
    /\ ret[1] = finalMod - 1
    /\ Len(printed) = 1

\* C5: a derivation issues its two getBlockHash calls one after the other:
\* the first for the primary height; the second only once the first has
\* returned and the chain and the reduction are done, for the sibling height
\* computed from the chain's output; at most one call is outstanding.
C5_TwoCallsInSequence ==
    /\ outstanding \in {0, 1}
    /\ pc = "rpc1" => calls = <<str(blockId)>> /\ outstanding = 1
    /\ pc \in {"sddh", "chain"} /\ mode = "program" =>
          Len(calls) = 1 /\ outstanding = 0
    /\ pc = "rpc2" =>
          /\ Len(calls) = 2 /\ outstanding = 1
          /\ calls[1] = str(blockId)
          /\ x = nbLoops
          /\ nbBase = 1 + nbLoops
          /\ calls[2] = str(data.val % maxBackBlock)
    /\ pc = "show" =>
          /\ Len(calls) = 2 /\ outstanding = 0
          /\ calls[1] = str(blockId)
          /\ calls[2] = ret[2]

C5_Witness ==
    /\ pc = "show"
    /\ Len(calls) = 2
    /\ ret[3] = 2

\* C6: when a getBlockHash call fails, the run ends with that failure:
\* lottery() returns nothing, no line is printed for the height, histo and
\* count keep the values the completed derivations gave them.
C6_FailureAbortsDerivation ==
    failed =>
        /\ pc = "fatal"
        /\ error = "CalledProcessError"
        /\ ret = <<>>
        /\ nbCalls <= 1 => printed = <<>>
        /\ nbCalls > 1 =>
              /\ \A i \in 1..Len(printed) : printed[i].block # blockId
              /\ count = Len(printed)
              /\ SumTo(histo, finalMod - 1) = count

C6_Witness ==
    /\ failed
    /\ pc = "fatal"
    /\ Len(calls) = 2
    /\ Len(printed) = 1

docLastBlock == 400000

\* C8: without an argument the derivations run for 1, 2, ..., 400000 in
\* increasing order, each once; with an argument h, one derivation, for h.
C8_DerivationRange ==
    pc = "rpc1" =>
        IF Len(sys_argv) = 1
        THEN /\ fromBlock = 1
             /\ toBlock = docLastBlock
             /\ blockId = Len(printed) + 1
             /\ \A i \in 1..Len(printed) : printed[i].block = i
        ELSE /\ blockId = IntValue(sys_argv[2], 10)
             /\ printed = <<>>

\* C9: the sibling height given to getBlockHash is at least 1 and less
\* than 400000.
C9_SiblingAtLeastOne ==
    pc = "rpc2" => IntValue(calls[2], 10) \in 1..(maxBackBlock - 1)

\* C10: for every input, slowDataDependentHash applies slowBaseHash exactly
\* 1 + loopCount times and returns.
C10_ChainApplications ==
    (mode = "slowDataDependentHash" /\ pc \in {"returned", "fatal"}) =>
        /\ pc = "returned"
        /\ nbBase = 1 + nbLoops
        /\ x = nbLoops

====
